---- MODULE Spec2Model ----
(***************************************************************************)
(* VecoForTokenClassification (modelscope/models/nlp/veco/                 *)
(* token_classification.py): the checkpoint factory _instantiate, the      *)
(* constructor and the inference method forward, with the collaborators    *)
(* they call (parse_label_mapping, VecoConfig, from_pretrained, the parent *)
(* forward) recorded as a trace of calls.                                  *)
(***************************************************************************)
EXTENDS Integers, Sequences, FiniteSets, TLC

VARIABLES
    op,          \* the method called: "_instantiate" or "forward"
    kwargs,      \* the call's keyword arguments
    args,        \* the call's positional arguments (forward)
    label_file,  \* the label-mapping file of the checkpoint directory
    upstream,    \* what the parent class's forward returns (forward)
    pc,          \* "call" before the method runs, then "returned" or "raised"
    calls,       \* the calls made to collaborators, in order
    result       \* the value returned

vars == <<op, kwargs, args, label_file, upstream, pc, calls, result>>

(***************************************************************************)
(* Bounds of the model.                                                    *)
(***************************************************************************)
MaxId == 1

MaxNumLabels == 2

MaxArgs == 1

(***************************************************************************)
(* Python values.  Every value carries its type, so that None, an int, a   *)
(* str, a bool and a dict are all comparable with one another.  A dict is  *)
(* the sequence of its (key, value) items in insertion order, keys         *)
(* distinct, as Python's dict keeps them.                                  *)
(***************************************************************************)
PyNone == <<"None">>

PyInt(n) == <<"int", n>>

PyStr(s) == <<"str", s>>

PyBool(b) == <<"bool", b>>

PyDict(items) == <<"dict", items>>

Items(d) == d[2]

Labels == {"B-PER", "O"}

Ids == 0 .. MaxId

Dirs == {"ckpt"}

\* The item sequences of the dicts with keys in K, values in V and at most two items.
ItemSeqs(K, V) ==
    {<<>>}
    \cup {<< <<k, v>> >> : k \in K, v \in V}
    \cup {<< <<p[1], v1>>, <<p[2], v2>> >> :
            p \in {q \in K \X K : q[1] # q[2]}, v1 \in V, v2 \in V}

Label2IdDicts == {PyDict(s) : s \in ItemSeqs(Labels, Ids)}

Id2LabelDicts == {PyDict(s) : s \in ItemSeqs(Ids, Labels)}

\* len(d)
PyLen(d) == Len(Items(d))

\* d.keys() and d.values() as sets
KeysOf(d) == {Items(d)[i][1] : i \in DOMAIN Items(d)}

ValuesOf(d) == {Items(d)[i][2] : i \in DOMAIN Items(d)}

\* d[k] for a key of d
Lookup(d, k) == Items(d)[CHOOSE i \in DOMAIN Items(d) : Items(d)[i][1] = k][2]

\* d[k] = v on the item sequence: an existing key keeps its place, a new key is appended
SetItem(items, k, v) ==
    IF \E i \in DOMAIN items : items[i][1] = k
    THEN [i \in DOMAIN items |-> IF items[i][1] = k THEN <<k, v>> ELSE items[i]]
    ELSE Append(items, <<k, v>>)

RECURSIVE InvertFrom(_, _, _)
InvertFrom(items, i, acc) ==
    IF i > Len(items) THEN acc
    ELSE InvertFrom(items, i + 1, SetItem(acc, items[i][2], items[i][1]))

\* {v: k for k, v in d.items()}
Invert(d) == PyDict(InvertFrom(Items(d), 1, <<>>))

\* Python's == on dicts: the same keys with the same values, whatever the order
DictEq(a, b) ==
    /\ KeysOf(a) = KeysOf(b)
    /\ \A k \in KeysOf(a) : Lookup(a, k) = Lookup(b, k)

(***************************************************************************)
(* Keyword arguments are functions from the keys present to their values.  *)
(***************************************************************************)
Absent == <<"absent">>

\* the **kwargs built from a choice of "absent or a value" per key
MkKwargs(choice) ==
    [k \in {c \in DOMAIN choice : choice[c] # Absent} |-> choice[k]]

\* kwargs.get(key, default)
Get(kw, key, default) == IF key \in DOMAIN kw THEN kw[key] ELSE default

\* kwargs after kwargs.pop(key, ...)
Without(kw, key) == [k \in DOMAIN kw \ {key} |-> kw[k]]

\* kw with kw[key] = value
With(kw, key, value) ==
    [k \in DOMAIN kw \cup {key} |-> IF k = key THEN value ELSE kw[k]]

EmptyKwargs == [k \in {} |-> PyNone]

(***************************************************************************)
(* Collaborators.                                                          *)
(***************************************************************************)
FileMissing == <<"missing">>

FileMalformed == <<"malformed">>

LabelFiles == {FileMissing, FileMalformed} \cup Label2IdDicts

\* parse_label_mapping(model_dir): the mapping of the directory's file, None when
\* there is none, an exception when the file cannot be parsed
ParseLabelMapping(file) ==
    IF file = FileMalformed THEN [raised |-> TRUE, value |-> PyNone]
    ELSE IF file = FileMissing THEN [raised |-> FALSE, value |-> PyNone]
    ELSE [raised |-> FALSE, value |-> file]

ParseCall(model_dir) == <<"parse_label_mapping", model_dir>>

ConfigCall(kw) == <<"VecoConfig", kw>>

FromPretrainedCall(kw) == <<"from_pretrained", kw>>

\* VecoConfig(**kw): the configuration, known here only by what it was built from
VecoConfig(kw) == <<"config", kw>>

(***************************************************************************)
(* __init__(self, config, **kwargs)                                        *)
(***************************************************************************)
ConstructCalls(config, kw) ==
    << <<"TorchModel.__init__", <<config, "name_or_path">>, kw>>,
       <<"RobertaForTokenClassification.__init__", config>> >>

(***************************************************************************)
(* _instantiate(cls, **kwargs)                                             *)
(***************************************************************************)
\* A mutant of NoModelDir: tests the key's presence, not its value.
NoModelDirByKey(kw) == "model_dir" \notin DOMAIN kw

\* model_dir = kwargs.pop('model_dir', None); if model_dir is None
NoModelDir(kw) == Get(kw, "model_dir", PyNone) = PyNone

\* A mutant of ParseStep: the parser is a lazily evaluated default.
ParseStepLazy(kw, model_dir, file) ==
    IF "label2id" \in DOMAIN kw
    THEN [calls |-> <<>>, raised |-> FALSE, value |-> PyNone]
    ELSE [calls  |-> <<ParseCall(model_dir)>>,
          raised |-> ParseLabelMapping(file).raised,
          value  |-> ParseLabelMapping(file).value]

\* parse_label_mapping(model_dir), evaluated as an argument of kwargs.get before
\* the lookup, whether or not the key is there
ParseStep(kw, model_dir, file) ==
    [calls  |-> <<ParseCall(model_dir)>>,
     raised |-> ParseLabelMapping(file).raised,
     value  |-> ParseLabelMapping(file).value]

\* A mutant of ResolveLabel2Id: the file's mapping wins over the keyword.
ResolveLabel2IdFileFirst(kw, parsed) ==
    IF parsed # PyNone THEN parsed ELSE Get(kw, "label2id", parsed)

\* label2id = kwargs.get('label2id', parse_label_mapping(model_dir))
ResolveLabel2Id(kw, parsed) == Get(kw, "label2id", parsed)

\* A mutant of ResolveId2Label: no inversion of label2id.
ResolveId2LabelNoDefault(kw, label2id) == Get(kw, "id2label", PyNone)

\* id2label = kwargs.get('id2label', None if label2id is None else {inverse})
ResolveId2Label(kw, label2id) ==
    Get(kw, "id2label", IF label2id = PyNone THEN PyNone ELSE Invert(label2id))

\* if id2label is not None and label2id is None: label2id = {inverse}
FillLabel2Id(label2id, id2label) ==
    IF id2label # PyNone /\ label2id = PyNone THEN Invert(id2label) ELSE label2id

\* A mutant of ResolveNumLabels: the entry count overrides the keyword.
ResolveNumLabelsOverride(kw, label2id) ==
    IF label2id = PyNone THEN Get(kw, "num_labels", PyNone)
    ELSE PyInt(PyLen(label2id))

\* A mutant of ResolveNumLabels: no count of label2id.
ResolveNumLabelsNoDefault(kw, label2id) == Get(kw, "num_labels", PyNone)

\* num_labels = kwargs.get('num_labels', None if label2id is None else len(label2id))
ResolveNumLabels(kw, label2id) ==
    Get(kw, "num_labels",
        IF label2id = PyNone THEN PyNone ELSE PyInt(PyLen(label2id)))

\* A mutant of ModelKwargs: the three keys are always set, None included.
ModelKwargsUnguarded(kw, num_labels, label2id, id2label) ==
    [k \in {"num_labels", "label2id", "id2label"} |->
        IF k = "num_labels" THEN num_labels
        ELSE IF k = "label2id" THEN label2id ELSE id2label]

\* A mutant of ModelKwargs: model_kwargs starts as a copy of kwargs.
ModelKwargsFromKwargs(kw, num_labels, label2id, id2label) ==
    LET k1 == IF num_labels # PyNone THEN With(kw, "num_labels", num_labels) ELSE kw
        k2 == IF label2id # PyNone THEN With(k1, "label2id", label2id) ELSE k1
    IN  IF id2label # PyNone THEN With(k2, "id2label", id2label) ELSE k2

\* model_kwargs = {} and the three guarded assignments
ModelKwargs(kw, num_labels, label2id, id2label) ==
    LET k1 == IF num_labels # PyNone
              THEN With(EmptyKwargs, "num_labels", num_labels) ELSE EmptyKwargs
        k2 == IF label2id # PyNone THEN With(k1, "label2id", label2id) ELSE k1
    IN  IF id2label # PyNone THEN With(k2, "id2label", id2label) ELSE k2

\* the else branch after a parse that returned: what from_pretrained is given
LoaderKwargs(kw, model_dir, parsed) ==
    LET label2id0  == ResolveLabel2Id(kw, parsed)
        id2label   == ResolveId2Label(kw, label2id0)
        label2id   == FillLabel2Id(label2id0, id2label)
        num_labels == ResolveNumLabels(kw, label2id)
    IN  With(ModelKwargs(kw, num_labels, label2id, id2label),
             "pretrained_model_name_or_path", model_dir)

\* the whole method: the calls it makes, how it ends and what it returns
InstantiateRun(kw0, file) ==
    LET model_dir == Get(kw0, "model_dir", PyNone)
        kw        == Without(kw0, "model_dir")
    IN  IF NoModelDir(kw0)
        THEN LET config == VecoConfig(kw)
             IN  [calls  |-> <<ConfigCall(kw)>> \o ConstructCalls(config, EmptyKwargs),
                  pc     |-> "returned",
                  result |-> <<"model", "cls", config>>]
        ELSE LET parse == ParseStep(kw, model_dir, file)
             IN  IF parse.raised
                 THEN [calls |-> parse.calls, pc |-> "raised", result |-> PyNone]
                 ELSE LET lk == LoaderKwargs(kw, model_dir, parse.value)
                      IN  [calls  |-> Append(parse.calls, FromPretrainedCall(lk)),
                           pc     |-> "returned",
                           result |-> <<"model", "from_pretrained", lk>>]

Instantiate ==
    /\ pc = "call"
    /\ op = "_instantiate"
    /\ LET run == InstantiateRun(kwargs, label_file)
       IN  /\ calls' = run.calls
           /\ pc' = run.pc
           /\ result' = run.result
    /\ UNCHANGED <<op, kwargs, args, label_file, upstream>>

(***************************************************************************)
(* forward(self, *args, **kwargs)                                          *)
(***************************************************************************)
Tensors == {<<"tensor", 1>>, <<"tensor", 2>>}

OutputFields == {"loss", "logits", "hidden_states", "attentions"}

ForwardCall(a, kw) == <<"RobertaForTokenClassification.forward", a, kw>>

\* A mutant of ForwardKwargs: the flag is only a default (setdefault).
ForwardKwargsDefault(kw) ==
    IF "return_dict" \in DOMAIN kw THEN kw ELSE With(kw, "return_dict", PyBool(TRUE))

\* kwargs['return_dict'] = True
ForwardKwargs(kw) == With(kw, "return_dict", PyBool(TRUE))

\* AttentionTokenClassificationModelOutput(loss=outputs.loss, ...)
ForwardOutput(outputs) ==
    <<"AttentionTokenClassificationModelOutput",
      [loss          |-> outputs.loss,
       logits        |-> outputs.logits,
       hidden_states |-> outputs.hidden_states,
       attentions    |-> outputs.attentions]>>

Forward ==
    /\ pc = "call"
    /\ op = "forward"
    /\ calls' = <<ForwardCall(args, ForwardKwargs(kwargs))>>
    /\ result' = ForwardOutput(upstream)
    /\ pc' = "returned"
    /\ UNCHANGED <<op, kwargs, args, label_file, upstream>>

(***************************************************************************)
(* The calls checked: every choice of arguments and of the directory's     *)
(* label-mapping file for _instantiate, every choice of arguments and of   *)
(* the parent's result for forward.                                        *)
(***************************************************************************)
OrAbsent(S) == {Absent} \cup S

InstantiateKwargs ==
    {MkKwargs([model_dir   |-> md, label2id |-> l2i, id2label |-> i2l,
               num_labels  |-> nl, hidden_size |-> hs]) :
        md  \in OrAbsent({PyNone} \cup {PyStr(d) : d \in Dirs}),
        l2i \in OrAbsent({PyNone} \cup Label2IdDicts),
        i2l \in OrAbsent({PyNone} \cup Id2LabelDicts),
        nl  \in OrAbsent({PyNone} \cup {PyInt(n) : n \in 0 .. MaxNumLabels}),
        hs  \in OrAbsent({PyInt(16)})}

ForwardKwargsIn ==
    {MkKwargs([return_dict |-> rd, labels |-> lb]) :
        rd \in OrAbsent({PyBool(TRUE), PyBool(FALSE)}),
        lb \in OrAbsent(Tensors)}

ForwardArgs == UNION {[1 .. n -> Tensors] : n \in 0 .. MaxArgs}

UpstreamOutputs == [OutputFields -> {PyNone} \cup Tensors]

InitInstantiate ==
    /\ op = "_instantiate"
    /\ kwargs \in InstantiateKwargs
    /\ label_file \in LabelFiles
    /\ args = <<>>
    /\ upstream = PyNone

InitForward ==
    /\ op = "forward"
    /\ kwargs \in ForwardKwargsIn
    /\ args \in ForwardArgs
    /\ upstream \in UpstreamOutputs
    /\ label_file = FileMissing

Init ==
    /\ InitInstantiate \/ InitForward
    /\ pc = "call"
    /\ calls = <<>>
    /\ result = PyNone

Next == Instantiate \/ Forward

Spec == Init /\ [][Next]_vars

(***************************************************************************)
(* Vocabulary of the properties.                                           *)
(***************************************************************************)
LabelKeys == {"num_labels", "label2id", "id2label"}

\* the factory has run
FactoryDone == op = "_instantiate" /\ pc # "call"

\* the caller passed a directory
WithDir == "model_dir" \in DOMAIN kwargs /\ kwargs["model_dir"] # PyNone

\* the caller passed the key with a value (a mapping, a number), not None
Given(key) == key \in DOMAIN kwargs /\ kwargs[key] # PyNone

\* the parser returns: a mapping, or None for a directory without one
Parseable == label_file # FileMalformed

CallsTo(name) == {i \in DOMAIN calls : calls[i][1] = name}

\* the keyword set of the call to from_pretrained
Loader == calls[CHOOSE i \in CallsTo("from_pretrained") : TRUE][2]

\* the factory ran to its end through the checkpoint branch
Loaded ==
    /\ FactoryDone
    /\ pc = "returned"
    /\ Cardinality(CallsTo("from_pretrained")) = 1

Injective(d) ==
    \A i, j \in DOMAIN Items(d) : Items(d)[i][2] = Items(d)[j][2] => i = j

\* inv maps every value of d back to its key, and has no other keys
ExactInverse(inv, d) ==
    /\ KeysOf(inv) = ValuesOf(d)
    /\ \A i \in DOMAIN Items(d) : Lookup(inv, Items(d)[i][2]) = Items(d)[i][1]

(***************************************************************************)
(* C1: with a directory, an injective label2id given, and neither id2label *)
(* nor num_labels passed, whatever the parser returns for the directory,   *)
(* from_pretrained receives num_labels = the number of entries of label2id *)
(* and id2label = the exact inverse of label2id.                           *)
(***************************************************************************)
C1_Case ==
    /\ FactoryDone /\ WithDir /\ Parseable
    /\ Given("label2id") /\ Injective(kwargs["label2id"])
    /\ "id2label" \notin DOMAIN kwargs
    /\ "num_labels" \notin DOMAIN kwargs

C1_LabelsOnly ==
    C1_Case =>
        /\ Loaded
        /\ {"num_labels", "id2label"} \subseteq DOMAIN Loader
        /\ Loader["num_labels"] = PyInt(Cardinality(KeysOf(kwargs["label2id"])))
        /\ ExactInverse(Loader["id2label"], kwargs["label2id"])

C1_Witness ==
    /\ C1_Case
    /\ PyLen(kwargs["label2id"]) = 2
    /\ label_file \in Label2IdDicts
    /\ label_file # kwargs["label2id"]
    /\ Loader["num_labels"] = PyInt(2)

(***************************************************************************)
(* C2: with a directory, an injective id2label given and label2id not      *)
(* passed, whatever the parser returns (no mapping, or a mapping), the     *)
(* label2id from_pretrained receives is the exact inverse of id2label.     *)
(***************************************************************************)
C2_Case ==
    /\ FactoryDone /\ WithDir /\ Parseable
    /\ Given("id2label") /\ Injective(kwargs["id2label"])
    /\ "label2id" \notin DOMAIN kwargs

C2_InverseOfId2Label ==
    C2_Case =>
        /\ Loaded
        /\ "label2id" \in DOMAIN Loader
        /\ ExactInverse(Loader["label2id"], kwargs["id2label"])

(***************************************************************************)
(* C3: with a directory and both label2id and num_labels given,            *)
(* from_pretrained receives exactly that label2id and exactly that         *)
(* num_labels, also when num_labels is not the number of entries.          *)
(***************************************************************************)
C3_Case ==
    /\ FactoryDone /\ WithDir /\ Parseable
    /\ Given("label2id") /\ Given("num_labels")

C3_NoOverride ==
    C3_Case =>
        /\ Loaded
        /\ {"num_labels", "label2id"} \subseteq DOMAIN Loader
        /\ Loader["label2id"] = kwargs["label2id"]
        /\ Loader["num_labels"] = kwargs["num_labels"]

C3_Witness ==
    /\ C3_Case
    /\ kwargs["num_labels"] # PyInt(PyLen(kwargs["label2id"]))
    /\ Loader["num_labels"] = kwargs["num_labels"]

(***************************************************************************)
(* C4: with a directory whose file yields no mapping and none of           *)
(* label2id, id2label, num_labels passed, from_pretrained is called with   *)
(* the directory and with none of the three keys.                          *)
(***************************************************************************)
C4_Case ==
    /\ FactoryDone /\ WithDir
    /\ label_file = FileMissing
    /\ DOMAIN kwargs \cap LabelKeys = {}

C4_NoLabelKeys ==
    C4_Case =>
        /\ Loaded
        /\ DOMAIN Loader = {"pretrained_model_name_or_path"}
        /\ Loader["pretrained_model_name_or_path"] = kwargs["model_dir"]

C4_Witness ==
    /\ C4_Case
    /\ "hidden_size" \in DOMAIN kwargs
    /\ DOMAIN Loader \cap LabelKeys = {}

(***************************************************************************)
(* C5: whatever the caller passed for return_dict (nothing, True, False),  *)
(* forward makes one delegated call with return_dict = True, the same      *)
(* positional arguments and every other keyword unchanged, and returns an  *)
(* output whose loss, logits, hidden_states and attentions are those of    *)
(* the delegated call's result.                                            *)
(***************************************************************************)
ForwardDone == op = "forward" /\ pc = "returned"

C5_Forward ==
    ForwardDone =>
        /\ Len(calls) = 1
        /\ calls[1][1] = "RobertaForTokenClassification.forward"
        /\ calls[1][2] = args
        /\ DOMAIN calls[1][3] = DOMAIN kwargs \cup {"return_dict"}
        /\ calls[1][3]["return_dict"] = PyBool(TRUE)
        /\ \A k \in DOMAIN kwargs \ {"return_dict"} : calls[1][3][k] = kwargs[k]
        /\ result[1] = "AttentionTokenClassificationModelOutput"
        /\ DOMAIN result[2] = OutputFields
        /\ \A f \in OutputFields : result[2][f] = upstream[f]

C5_Witness ==
    /\ ForwardDone
    /\ "return_dict" \in DOMAIN kwargs /\ kwargs["return_dict"] = PyBool(FALSE)
    /\ "labels" \in DOMAIN kwargs
    /\ Len(args) = 1
    /\ calls[1][3]["return_dict"] = PyBool(TRUE)
    /\ upstream["hidden_states"] # upstream["attentions"]
    /\ upstream["loss"] # upstream["logits"]
    /\ result[2]["attentions"] = upstream["attentions"]

(***************************************************************************)
(* C6: without a directory (model_dir not passed, or None) the factory     *)
(* builds the configuration from all the other keyword arguments as they   *)
(* were passed and constructs the adapter from it; the parser and          *)
(* from_pretrained are not called, and nothing is derived.                 *)
(***************************************************************************)
C6_Case == FactoryDone /\ ~WithDir

C6_NoDirectory ==
    C6_Case =>
        /\ pc = "returned"
        /\ calls[1] = <<"VecoConfig", Without(kwargs, "model_dir")>>
        /\ CallsTo("parse_label_mapping") = {}
        /\ CallsTo("from_pretrained") = {}
        /\ calls[Len(calls)][1] = "RobertaForTokenClassification.__init__"
        /\ calls[Len(calls)][2] = <<"config", Without(kwargs, "model_dir")>>
        /\ result = <<"model", "cls", <<"config", Without(kwargs, "model_dir")>>>>

C6_Witness ==
    /\ C6_Case
    /\ "model_dir" \in DOMAIN kwargs
    /\ Given("label2id")
    /\ DOMAIN kwargs \cap {"id2label", "num_labels"} = {}
    /\ label_file \in Label2IdDicts
    /\ DOMAIN calls[1][2] = {"label2id"}

(***************************************************************************)
(* C7: with a directory, the label2id passed on is the label2id keyword    *)
(* whenever a mapping is given under it, even if the directory's file      *)
(* holds another mapping; the file's mapping is used only when the keyword *)
(* is not passed; and when the file yields no mapping and no id2label is   *)
(* given, label2id stays undefined and nothing is raised.                  *)
(***************************************************************************)
C7_Case == FactoryDone /\ WithDir /\ Parseable

C7_Label2IdResolution ==
    C7_Case =>
        /\ Loaded
        /\ Given("label2id") =>
              /\ "label2id" \in DOMAIN Loader
              /\ Loader["label2id"] = kwargs["label2id"]
        /\ ("label2id" \notin DOMAIN kwargs /\ label_file \in Label2IdDicts) =>
              /\ "label2id" \in DOMAIN Loader
              /\ Loader["label2id"] = label_file
        /\ ("label2id" \in DOMAIN kwargs /\ ~Given("label2id")) =>
              /\ "label2id" \in DOMAIN Loader <=> Given("id2label")
              /\ Given("id2label") =>
                    /\ KeysOf(Loader["label2id"]) = ValuesOf(kwargs["id2label"])
                    /\ \A l \in KeysOf(Loader["label2id"]) :
                          Lookup(kwargs["id2label"], Lookup(Loader["label2id"], l)) = l
        /\ ("label2id" \notin DOMAIN kwargs /\ label_file = FileMissing
                /\ ~Given("id2label")) =>
              "label2id" \notin DOMAIN Loader

C7_Witness ==
    /\ C7_Case
    /\ Given("label2id")
    /\ label_file \in Label2IdDicts
    /\ ~DictEq(label_file, kwargs["label2id"])
    /\ PyLen(label_file) = 2
    /\ Loader["label2id"] = kwargs["label2id"]

(***************************************************************************)
(* C8: with a directory and num_labels not passed, whenever a label2id is  *)
(* passed on (given, parsed from the file, or inverted from id2label),     *)
(* from_pretrained receives num_labels = the number of entries of that     *)
(* label2id.                                                               *)
(***************************************************************************)
C8_Case ==
    /\ Loaded /\ WithDir
    /\ "num_labels" \notin DOMAIN kwargs
    /\ "label2id" \in DOMAIN Loader

C8_NumLabelsIsCount ==
    C8_Case =>
        /\ "num_labels" \in DOMAIN Loader
        /\ Loader["num_labels"] = PyInt(Cardinality(KeysOf(Loader["label2id"])))

C8_Witness ==
    /\ C8_Case
    /\ "label2id" \notin DOMAIN kwargs
    /\ label_file = FileMissing
    /\ Given("id2label")
    /\ PyLen(kwargs["id2label"]) = 2
    /\ ~Injective(kwargs["id2label"])
    /\ Loader["num_labels"] = PyInt(1)

(***************************************************************************)
(* C9 as stated: with a directory, from_pretrained receives the directory  *)
(* and otherwise only keys among num_labels, label2id, id2label; such a    *)
(* key is never None; and a key the caller passed as None is absent.       *)
(***************************************************************************)
C9_Case == Loaded /\ WithDir

C9_OnlyLabelKeys ==
    /\ DOMAIN Loader \subseteq LabelKeys \cup {"pretrained_model_name_or_path"}
    /\ "pretrained_model_name_or_path" \in DOMAIN Loader
    /\ Loader["pretrained_model_name_or_path"] = kwargs["model_dir"]
    /\ \A k \in DOMAIN Loader : Loader[k] # PyNone

PassedNone(key) == key \in DOMAIN kwargs /\ kwargs[key] = PyNone

C9_Original ==
    C9_Case =>
        /\ C9_OnlyLabelKeys
        /\ \A k \in LabelKeys : PassedNone(k) => k \notin DOMAIN Loader

(***************************************************************************)
(* C9 amended: as stated, except that label2id passed as None is absent    *)
(* only if no id2label mapping is given; with one given, label2id is       *)
(* present and is the inversion of that id2label.                          *)
(***************************************************************************)
C9_Amended ==
    C9_Case =>
        /\ C9_OnlyLabelKeys
        /\ \A k \in {"num_labels", "id2label"} :
              PassedNone(k) => k \notin DOMAIN Loader
        /\ (PassedNone("label2id") /\ ~Given("id2label")) =>
              "label2id" \notin DOMAIN Loader
        /\ (PassedNone("label2id") /\ Given("id2label")) =>
              /\ "label2id" \in DOMAIN Loader
              /\ KeysOf(Loader["label2id"]) = ValuesOf(kwargs["id2label"])
              /\ \A l \in KeysOf(Loader["label2id"]) :
                    Lookup(kwargs["id2label"], Lookup(Loader["label2id"], l)) = l

C9_Witness ==
    /\ C9_Case
    /\ "hidden_size" \in DOMAIN kwargs
    /\ PassedNone("label2id")
    /\ PassedNone("num_labels")
    /\ Given("id2label")
    /\ PyLen(kwargs["id2label"]) = 2
    /\ DOMAIN Loader = {"pretrained_model_name_or_path", "label2id", "id2label"}

(***************************************************************************)
(* C10: with a directory, the parser is called exactly once, on that       *)
(* directory, before from_pretrained, also when label2id is passed; when   *)
(* the parser raises, the factory raises and from_pretrained is not        *)
(* called.                                                                 *)
(***************************************************************************)
C10_Case == FactoryDone /\ WithDir

C10_ParserFirst ==
    C10_Case =>
        /\ Cardinality(CallsTo("parse_label_mapping")) = 1
        /\ calls[1] = <<"parse_label_mapping", kwargs["model_dir"]>>
        /\ \A i \in CallsTo("from_pretrained") : i > 1
        /\ label_file = FileMalformed =>
              /\ pc = "raised"
              /\ CallsTo("from_pretrained") = {}
        /\ label_file # FileMalformed => Loaded

C10_Witness ==
    /\ C10_Case
    /\ Given("label2id")
    /\ label_file = FileMalformed
    /\ pc = "raised"
    /\ calls = << <<"parse_label_mapping", kwargs["model_dir"]>> >>

====
